---- MODULE Spec2Model ----
(***************************************************************************)
(* EcoFlow frontend: the client-side end-of-life recalculation             *)
(* (src/frontend/lib/eol-recalc.ts) and the page that drives it            *)
(* (src/frontend/app/page.tsx, SummaryCard.tsx, WhatIfSlider, SankeyChart).*)
(*                                                                         *)
(* Numbers.  JavaScript numbers are modelled as exact decimal fixed-point  *)
(* integers:                                                               *)
(*   - a weight is an integer number of 0.001 kg,                          *)
(*   - a mix fraction and a method factor are integer tenths,              *)
(*   - a blended factor is therefore an integer number of hundredths,      *)
(*   - every kg CO2e quantity (phase values, totals, link values, the      *)
(*     unrounded EOL) is an integer number of 0.00001 kg CO2e, so that one *)
(*     unit of the 4th decimal place is 10 model units and the value       *)
(*     halfway between two 4-decimal values is representable.              *)
(* Binary floating-point representation error is not modelled.             *)
(*                                                                         *)
(* Objects.  JSON arrays that the code mutates in place live in `heap`     *)
(* and are referred to by index, so that two results sharing one array     *)
(* (the `...original` spread) see each other's in-place changes.           *)
(***************************************************************************)
EXTENDS Integers, Sequences, FiniteSets, TLC

VARIABLES
    \* ---- page.tsx: React state of Home ----
    asin,            \* useState("")            page.tsx:13
    loading,         \* useState(false)         page.tsx:15
    error,           \* useState(null)          page.tsx:16
    originalData,    \* useState(null)          page.tsx:17
    displayData,     \* useState(null)          page.tsx:18
    activeScenario,  \* useState("baseline")    page.tsx:19
    requests,        \* handleAnalyze invocations suspended at `await fetch`
    started,         \* number of analyses started so far
    received,        \* server responses exactly as res.json() produced them
    chartLinks,      \* links SankeyChart handed to the layout at the last render
    lastEvent,       \* the handler that ran last, and its argument
    \* ---- shared object store ----
    heap,            \* material_details arrays, by reference
    \* ---- direct use of recalculateEOL (the exported pure function) ----
    original,        \* the result the caller holds
    scenario,        \* selector of the latest call
    result,          \* recalculateEOL(original, scenario)
    prevResult,      \* result of the call before the latest one
    chained,         \* every call applied to the previous call's output
    twice,           \* recalculateEOL(recalculateEOL(original, s), s)
    steps            \* number of calls made

pageVars == <<asin, loading, error, originalData, displayData, activeScenario,
              requests, started, received, chartLinks, lastEvent>>
recalcVars == <<original, scenario, result, prevResult, chained, twice, steps>>
vars == <<asin, loading, error, originalData, displayData, activeScenario,
          requests, started, received, chartLinks, lastEvent, heap,
          original, scenario, result, prevResult, chained, twice, steps>>

\* JavaScript null / undefined
Null == [isNull |-> TRUE]

\* ------------------------------------------------------------------------
\* Bounds
\* ------------------------------------------------------------------------
MaxSteps == 3
MaxRequests == 3

\* ------------------------------------------------------------------------
\* Numeric helpers
\* ------------------------------------------------------------------------
\* Model units in one unit of the 4th decimal place (the code's 10000).
Ulp4 == 10

\* Math.abs
Abs(x) == IF x < 0 THEN 0 - x ELSE x

\* Math.round(x * 10000) / 10000 : Math.round rounds to the nearest integer,
\* a tie going towards +Infinity, i.e. floor(y + 0.5).
Round4(x) == ((x + (Ulp4 \div 2)) \div Ulp4) * Ulp4

\* ------------------------------------------------------------------------
\* EOL constants
\* ------------------------------------------------------------------------
Methods == {"landfill", "incineration", "recycling"}

\* tenths of kg CO2e per kg
EOL_METHOD_FACTORS ==
    [m \in Methods |->
        CASE m = "landfill" -> 5
          [] m = "incineration" -> 10
          [] m = "recycling" -> 0 - 3]

\* Object.entries order of each mix; fractions in tenths
EOL_SCENARIOS ==
    [s \in {"baseline", "best_case", "worst_case"} |->
        CASE s = "baseline" ->
               << [method |-> "landfill", fraction |-> 6],
                  [method |-> "incineration", fraction |-> 2],
                  [method |-> "recycling", fraction |-> 2] >>
          [] s = "best_case" ->
               << [method |-> "landfill", fraction |-> 1],
                  [method |-> "incineration", fraction |-> 1],
                  [method |-> "recycling", fraction |-> 8] >>
          [] s = "worst_case" ->
               << [method |-> "landfill", fraction |-> 8],
                  [method |-> "incineration", fraction |-> 2],
                  [method |-> "recycling", fraction |-> 0] >>]

SCENARIO_LABELS == {"baseline", "best_case", "worst_case"}

\* Property names every object literal inherits from Object.prototype.
\* EOL_SCENARIOS[name] for such a name is the inherited member (a function,
\* or Object.prototype itself for "__proto__"): not null, not undefined,
\* and with no own enumerable properties.
ObjectPrototypeKeys ==
    {"constructor", "toString", "valueOf", "hasOwnProperty", "__proto__"}

\* ------------------------------------------------------------------------
\* recalculateEOL
\* ------------------------------------------------------------------------
\* EOL_SCENARIOS[scenario] ?? EOL_SCENARIOS.baseline, as Object.entries(mix)
mixFor(s) ==
    IF s \in DOMAIN EOL_SCENARIOS THEN EOL_SCENARIOS[s]
    ELSE IF s \in ObjectPrototypeKeys THEN << >>
    ELSE EOL_SCENARIOS["baseline"]

\* variant: the sign of a method factor lost
factorOf_Unsigned(method) ==
    IF method \in DOMAIN EOL_METHOD_FACTORS
    THEN (IF EOL_METHOD_FACTORS[method] < 0
          THEN 0 - EOL_METHOD_FACTORS[method] ELSE EOL_METHOD_FACTORS[method])
    ELSE 0

\* EOL_METHOD_FACTORS[method] ?? 0
factorOf(method) ==
    IF method \in DOMAIN EOL_METHOD_FACTORS THEN EOL_METHOD_FACTORS[method]
    ELSE 0

RECURSIVE reduceMix(_, _)
reduceMix(entries, sum) ==
    IF entries = << >> THEN sum
    ELSE reduceMix(Tail(entries),
                   sum + Head(entries).fraction * factorOf(Head(entries).method))

RECURSIVE sumFactors(_)
sumFactors(entries) ==
    IF entries = << >> THEN 0
    ELSE factorOf(Head(entries).method) + sumFactors(Tail(entries))

\* variant: the method factors added up without their mix fractions
blendedFactor_Unweighted(mix) == sumFactors(mix)

\* hundredths of kg CO2e per kg
blendedFactor(mix) == reduceMix(mix, 0)

RECURSIVE reduceWeights(_, _, _)
reduceWeights(entries, factor, sum) ==
    IF entries = << >> THEN sum
    ELSE reduceWeights(Tail(entries), factor, sum + Head(entries).weight * factor)

\* variant: the factor applied once to the product weight of the summary
newEolOf_TotalWeight(orig, factor) == orig.summary.weight_kg * factor

\* variant: the EOL value at hand rescaled from its scenario's blended
\* factor to the new one, instead of being recomputed from the weights
newEolOf_Rescaled(orig, factor) ==
    LET old == blendedFactor(mixFor(orig.summary.eol_scenario))
    IN  IF old = 0 THEN 0
        ELSE (orig.summary.breakdown.end_of_life * factor) \div old

\* Object.values(original.per_material_weights).reduce(...)
newEolOf(orig, factor) == reduceWeights(orig.per_material_weights, factor, 0)

\* variant: the use phase left out of the sum
newTotalOf_NoUse(orig, newEol) ==
    LET b == orig.summary.breakdown
    IN  b.materials + b.manufacturing + b.transport + newEol

\* variant: the new EOL added on top of the total already stored
newTotalOf_Incremental(orig, newEol) == orig.summary.total_co2e_kg + newEol

newTotalOf(orig, newEol) ==
    LET b == orig.summary.breakdown
    IN  b.materials + b.manufacturing + b.transport + b.use + newEol

\* variant: an edge is taken for the EOL edge when either endpoint matches
newLinksOf_EitherEndpoint(orig, newEol) ==
    [i \in 1..Len(orig.links) |->
        LET link == orig.links[i]
        IN  IF link.source = "eol" \/ link.target = "total"
            THEN [link EXCEPT !.value = Round4(Abs(newEol))]
            ELSE link]

newLinksOf(orig, newEol) ==
    [i \in 1..Len(orig.links) |->
        LET link == orig.links[i]
        IN  IF link.source = "eol" /\ link.target = "total"
            THEN [link EXCEPT !.value = Round4(Abs(newEol))]
            ELSE link]

newSummaryOf(orig, s, newTotal, newEol) ==
    [orig.summary EXCEPT
        !.total_co2e_kg = Round4(newTotal),
        !.eol_scenario = s,
        !.breakdown = [orig.summary.breakdown EXCEPT
                          !.end_of_life = Round4(newEol)]]

recalculateEOL(orig, s) ==
    LET mix == mixFor(s)
        factor == blendedFactor(mix)
        newEol == newEolOf(orig, factor)
        newTotal == newTotalOf(orig, newEol)
    IN  [orig EXCEPT
            !.links = newLinksOf(orig, newEol),
            !.summary = newSummaryOf(orig, s, newTotal, newEol)]

\* ------------------------------------------------------------------------
\* Inputs: results as the server may have produced them
\* ------------------------------------------------------------------------
Nodes0 ==
    << [id |-> "use", label |-> "Use Phase", phase |-> "use"],
       [id |-> "eol", label |-> "End of Life", phase |-> "eol"],
       [id |-> "total", label |-> "Total", phase |-> "total"] >>

\* link lists: the usual chain, one without an eol->total edge, and one that
\* has the edge twice next to edges sharing only one endpoint with it
LinkChoices ==
    { << [source |-> "use", target |-> "eol", value |-> 10000],
         [source |-> "eol", target |-> "total", value |-> 44000] >>,
      << [source |-> "use", target |-> "eol", value |-> 10000] >>,
      << [source |-> "eol", target |-> "total", value |-> 220],
         [source |-> "eol", target |-> "use", value |-> 30],
         [source |-> "use", target |-> "total", value |-> 50],
         [source |-> "eol", target |-> "total", value |-> 220] >> }

\* per_material_weights in Object.values order; weights in 0.001 kg
PmwChoices ==
    { << >>,
      << [name |-> "abs_plastic", weight |-> 1000] >>,
      << [name |-> "abs_plastic", weight |-> 5] >>,
      << [name |-> "steel", weight |-> 5],
         [name |-> "abs_plastic", weight |-> 1000] >>,
      << [name |-> "steel", weight |-> 3],
         [name |-> "glass", weight |-> 2] >>,
      << [name |-> "paper", weight |-> 15] >> }

\* <<materials, manufacturing, transport, use>> in 0.00001 kg CO2e
PhaseChoices ==
    { <<200000, 50000, 50000, 10000>>,
      <<0, 0, 0, 0>>,
      <<5, 0, 0, 0>>,
      <<12345, 5, 20, 0>> }

\* summary.weight_kg in 0.001 kg
WeightKgChoices == {1000, 7}

\* material_details lists: one already in display order, one not
MdChoices ==
    { << [name |-> "steel", fraction |-> 30, weight_kg |-> 300,
          impact_kg_co2e |-> 60000, factor |-> 20],
         [name |-> "abs_plastic", fraction |-> 70, weight_kg |-> 700,
          impact_kg_co2e |-> 21000, factor |-> 3] >>,
      << [name |-> "abs_plastic", fraction |-> 70, weight_kg |-> 700,
          impact_kg_co2e |-> 21000, factor |-> 3],
         [name |-> "steel", fraction |-> 30, weight_kg |-> 300,
          impact_kg_co2e |-> 60000, factor |-> 20],
         [name |-> "glass", fraction |-> 0, weight_kg |-> 0,
          impact_kg_co2e |-> 0 - 60000, factor |-> 0 - 1] >> }

\* A result whose material_details array is heap[ref].  fresh = TRUE: the
\* summary is what a baseline analysis of these weights gives; FALSE: the
\* summary's end_of_life and total are unrelated to the weights.
MkResult(pmw, ph, links, wkg, fresh, ref) ==
    LET e == reduceWeights(pmw, 44, 0)
    IN  [ nodes |-> Nodes0,
          links |-> links,
          summary |->
            [ total_co2e_kg |->
                IF fresh THEN Round4(ph[1] + ph[2] + ph[3] + ph[4] + e) ELSE 990,
              breakdown |->
                [ materials |-> ph[1], manufacturing |-> ph[2],
                  transport |-> ph[3], use |-> ph[4],
                  end_of_life |-> IF fresh THEN Round4(e) ELSE 770 ],
              weight_kg |-> wkg,
              category |-> "electronics",
              eol_scenario |-> "baseline" ],
          per_material_weights |-> pmw,
          material_details |-> ref ]

Originals ==
    { MkResult(pmw, ph, links, wkg, fresh, 1) :
        pmw \in PmwChoices, ph \in PhaseChoices, links \in LinkChoices,
        wkg \in WeightKgChoices, fresh \in BOOLEAN }

\* selectors handed to recalculateEOL: the predefined keys, a name that is
\* no key of any object, and a name inherited from Object.prototype
Selectors == SCENARIO_LABELS \cup {"custom_mix", "constructor"}

\* ------------------------------------------------------------------------
\* Page state at mount
\* ------------------------------------------------------------------------
NoError == "<null>"

PageInit ==
    /\ asin = ""
    /\ loading = FALSE
    /\ error = NoError
    /\ originalData = Null
    /\ displayData = Null
    /\ activeScenario = "baseline"
    /\ requests = {}
    /\ started = 0
    /\ received = << >>
    /\ chartLinks = Null
    /\ lastEvent = [kind |-> "mount", arg |-> ""]

\* ------------------------------------------------------------------------
\* Specification of recalculateEOL called directly
\* ------------------------------------------------------------------------
InitRecalc ==
    /\ PageInit
    /\ \E o \in Originals, md \in MdChoices :
          /\ heap = << md >>
          /\ original = o
          /\ chained = o
    /\ scenario = "<none>"
    /\ result = Null
    /\ prevResult = Null
    /\ twice = Null
    /\ steps = 0

Recalculate(s) ==
    /\ steps < MaxSteps
    /\ steps' = steps + 1
    /\ scenario' = s
    /\ result' = recalculateEOL(original, s)
    /\ prevResult' = result
    /\ chained' = recalculateEOL(chained, s)
    /\ twice' = recalculateEOL(recalculateEOL(original, s), s)
    /\ UNCHANGED <<original, heap>>
    /\ UNCHANGED pageVars

NextRecalc == \E s \in Selectors : Recalculate(s)

SpecRecalc == InitRecalc /\ [][NextRecalc]_vars

\* ------------------------------------------------------------------------
\* The page (page.tsx) with its child components
\* ------------------------------------------------------------------------
\* values typed into the ASIN field
AsinInputs == {"", " ", "B09V3KXJPB"}

\* String.prototype.trim on the values above
Trim(str) == IF str = " " THEN "" ELSE str

EmptyAsinError == "Please enter a product ASIN to get started."
ServerError == "Server error: 500"

\* bodies the server may answer with: a result and its material_details list
Responses ==
    { [ data |-> MkResult(<< [name |-> "abs_plastic", weight |-> 1000] >>,
                          <<200000, 50000, 50000, 10000>>,
                          << [source |-> "use", target |-> "eol", value |-> 10000],
                             [source |-> "eol", target |-> "total", value |-> 44000] >>,
                          1000, TRUE, 0),
        details |->
          << [name |-> "abs_plastic", fraction |-> 70, weight_kg |-> 700,
              impact_kg_co2e |-> 21000, factor |-> 3],
             [name |-> "steel", fraction |-> 30, weight_kg |-> 300,
              impact_kg_co2e |-> 60000, factor |-> 20],
             [name |-> "glass", fraction |-> 0, weight_kg |-> 0,
              impact_kg_co2e |-> 0 - 60000, factor |-> 0 - 1] >> ],
      [ data |-> MkResult(<< [name |-> "steel", weight |-> 5] >>,
                          <<5, 0, 0, 0>>,
                          << [source |-> "use", target |-> "eol", value |-> 100],
                             [source |-> "eol", target |-> "total", value |-> 220],
                             [source |-> "use", target |-> "total", value |-> 50],
                             [source |-> "extraction", target |-> "use", value |-> 110] >>,
                          5, TRUE, 0),
        details |->
          << [name |-> "steel", fraction |-> 100, weight_kg |-> 5,
              impact_kg_co2e |-> 5, factor |-> 100] >> ] }

RECURSIVE insertByImpact(_, _)
insertByImpact(sorted, x) ==
    IF sorted = << >> THEN << x >>
    ELSE IF Abs(Head(sorted).impact_kg_co2e) >= Abs(x.impact_kg_co2e)
         THEN << Head(sorted) >> \o insertByImpact(Tail(sorted), x)
         ELSE << x >> \o sorted

\* Array.prototype.sort((a, b) => |b.impact| - |a.impact|): stable, descending
RECURSIVE sortByImpact(_)
sortByImpact(list) ==
    IF list = << >> THEN << >>
    ELSE insertByImpact(sortByImpact(SubSeq(list, 1, Len(list) - 1)),
                        list[Len(list)])

\* SummaryCard({data}): material_details.sort(...) sorts the array it was
\* handed, in place
SummaryCard(h, data) ==
    [h EXCEPT ![data.material_details] = sortByImpact(@)]

\* one render of Home after a state update: the results section, and with it
\* SummaryCard, is rendered only while displayData is set
Render(h, display) ==
    IF display = Null THEN h ELSE SummaryCard(h, display)

\* the literal 0.001 of the links filter, in 0.00001 kg CO2e
MinLinkValue == 100

\* nodeMap.get(id) ?? 0 : the index of the (last) node with that id
nodeIndex(nodes, id) ==
    IF \E i \in 1..Len(nodes) : nodes[i].id = id
    THEN (CHOOSE i \in 1..Len(nodes) :
             /\ nodes[i].id = id
             /\ \A j \in 1..Len(nodes) : nodes[j].id = id => j <= i) - 1
    ELSE 0

keepLink(l) == l.value > MinLinkValue

\* SankeyChart({data}): data.links.filter(...).map(...), the links given to
\* the d3 layout
sankeyLinks(data) ==
    LET kept == SelectSeq(data.links, keepLink)
    IN  [i \in 1..Len(kept) |->
            [source |-> nodeIndex(data.nodes, kept[i].source),
             target |-> nodeIndex(data.nodes, kept[i].target),
             value |-> kept[i].value]]

\* the chart of one render of Home: none while displayData is null
Chart(display) == IF display = Null THEN Null ELSE sankeyLinks(display)

RecalcIdle ==
    /\ original = Null
    /\ scenario = "<none>"
    /\ result = Null
    /\ prevResult = Null
    /\ chained = Null
    /\ twice = Null
    /\ steps = 0

Init ==
    /\ PageInit
    /\ heap = << >>
    /\ RecalcIdle

\* onChange of the ASIN input
SetAsin(v) ==
    /\ v # asin
    /\ asin' = v
    /\ heap' = Render(heap, displayData)
    /\ chartLinks' = Chart(displayData)
    /\ lastEvent' = [kind |-> "setAsin", arg |-> v]
    /\ UNCHANGED <<loading, error, originalData, displayData, activeScenario,
                   requests, started, received>>
    /\ UNCHANGED recalcVars

\* handleAnalyze up to its first await
handleAnalyze ==
    IF Trim(asin) = ""
    THEN /\ error' = EmptyAsinError
         /\ heap' = Render(heap, displayData)
         /\ chartLinks' = Chart(displayData)
         /\ UNCHANGED <<asin, loading, originalData, displayData,
                        activeScenario, requests, started, received>>
    ELSE /\ started < MaxRequests
         /\ loading' = TRUE
         /\ error' = NoError
         /\ originalData' = Null
         /\ displayData' = Null
         /\ activeScenario' = "baseline"
         /\ started' = started + 1
         /\ requests' = requests \cup {started + 1}
         /\ heap' = Render(heap, Null)
         /\ chartLinks' = Chart(Null)
         /\ UNCHANGED <<asin, received>>

\* the Analyze button, disabled while loading
ClickAnalyze ==
    /\ ~loading
    /\ handleAnalyze
    /\ lastEvent' = [kind |-> "analyze", arg |-> "click"]
    /\ UNCHANGED recalcVars

\* Enter in the ASIN or the description input
PressEnter ==
    /\ handleAnalyze
    /\ lastEvent' = [kind |-> "analyze", arg |-> "Enter"]
    /\ UNCHANGED recalcVars

\* handleAnalyze resumed with an ok response: res.json() builds fresh objects
ResponseOk(r, resp) ==
    /\ r \in requests
    /\ LET ref == Len(heap) + 1
           data == [resp.data EXCEPT !.material_details = ref]
       IN  /\ originalData' = data
           /\ displayData' = data
           /\ received' = Append(received, [data |-> data, details |-> resp.details,
                                            request |-> r])
           /\ heap' = Render(Append(heap, resp.details), data)
           /\ chartLinks' = Chart(data)
    /\ lastEvent' = [kind |-> "responseOk", arg |-> ""]
    /\ loading' = FALSE
    /\ requests' = requests \ {r}
    /\ UNCHANGED <<asin, error, activeScenario, started>>
    /\ UNCHANGED recalcVars

\* handleAnalyze resumed with a failed fetch or a non-ok response
ResponseError(r) ==
    /\ r \in requests
    /\ error' = ServerError
    /\ loading' = FALSE
    /\ requests' = requests \ {r}
    /\ heap' = Render(heap, displayData)
    /\ chartLinks' = Chart(displayData)
    /\ lastEvent' = [kind |-> "responseError", arg |-> ""]
    /\ UNCHANGED <<asin, originalData, displayData, activeScenario, started,
                   received>>
    /\ UNCHANGED recalcVars

\* variant: the recalculation made with the scenario state as it was before
\* this click
handleScenarioChange_StaleScenario(s) ==
    /\ IF originalData = Null
       THEN UNCHANGED <<activeScenario, displayData, heap, chartLinks>>
       ELSE /\ activeScenario' = s
            /\ displayData' = recalculateEOL(originalData, activeScenario)
            /\ heap' = Render(heap, displayData')
            /\ chartLinks' = Chart(displayData')
    /\ lastEvent' = [kind |-> "scenario", arg |-> s]
    /\ UNCHANGED <<asin, loading, error, originalData, requests, started,
                   received>>
    /\ UNCHANGED recalcVars

\* the onScenarioChange callback given to WhatIfSlider, called with the key
\* of a scenario button; it returns at once while there is no original
handleScenarioChange(s) ==
    /\ IF originalData = Null
       THEN UNCHANGED <<activeScenario, displayData, heap, chartLinks>>
       ELSE /\ activeScenario' = s
            /\ displayData' = recalculateEOL(originalData, s)
            /\ heap' = Render(heap, displayData')
            /\ chartLinks' = Chart(displayData')
    /\ lastEvent' = [kind |-> "scenario", arg |-> s]
    /\ UNCHANGED <<asin, loading, error, originalData, requests, started,
                   received>>
    /\ UNCHANGED recalcVars

Next ==
    \/ \E v \in AsinInputs : SetAsin(v)
    \/ ClickAnalyze
    \/ PressEnter
    \/ \E r \in 1..MaxRequests, resp \in Responses : ResponseOk(r, resp)
    \/ \E r \in 1..MaxRequests : ResponseError(r)
    \/ \E s \in SCENARIO_LABELS : handleScenarioChange(s)

Spec == Init /\ [][Next]_vars

\* ------------------------------------------------------------------------
\* Claims about recalculateEOL (checked under SpecRecalc)
\* ------------------------------------------------------------------------
IsEolEdge(link) == link.source = "eol" /\ link.target = "total"

Predefined(s) == s \in {"baseline", "best_case", "worst_case"}

FourPhases(r) ==
    LET b == r.summary.breakdown
    IN  <<b.materials, b.manufacturing, b.transport, b.use>>

\* C1 (recalculation isolation): a call changes nothing of the result but
\* summary.breakdown.end_of_life, summary.total_co2e_kg, summary.eol_scenario
\* and the value of the eol->total links; the other phases, weight_kg,
\* category, nodes, per_material_weights, the material_details entries and
\* the count, order, endpoints and other values of the links are those of
\* the original, and the original itself is the same after the call.
C1_Isolation ==
    [][ steps' = steps + 1 =>
          /\ original' = original
          /\ heap' = heap
          /\ result'.nodes = original.nodes
          /\ result'.per_material_weights = original.per_material_weights
          /\ heap'[result'.material_details] = heap[original.material_details]
          /\ [result'.summary EXCEPT
                !.total_co2e_kg = original.summary.total_co2e_kg,
                !.eol_scenario = original.summary.eol_scenario,
                !.breakdown.end_of_life =
                    original.summary.breakdown.end_of_life]
             = original.summary
          /\ Len(result'.links) = Len(original.links)
          /\ \A i \in 1..Len(original.links) :
                /\ result'.links[i].source = original.links[i].source
                /\ result'.links[i].target = original.links[i].target
                /\ ~IsEolEdge(original.links[i]) =>
                      result'.links[i].value = original.links[i].value
      ]_vars

\* a call that did change the EOL phase, on a graph that has edges sharing
\* one endpoint with the eol->total edge
C1_Witness ==
    /\ result # Null
    /\ result.summary.breakdown.end_of_life
          # original.summary.breakdown.end_of_life
    /\ result.summary.total_co2e_kg # original.summary.total_co2e_kg
    /\ \E i \in 1..Len(result.links) :
          IsEolEdge(result.links[i])
          /\ result.links[i].value # original.links[i].value
    /\ \E i \in 1..Len(result.links) :
          result.links[i].source = "eol" /\ result.links[i].target # "total"

\* the mix fraction of a method in a predefined scenario, read off the table
FractionIn(s, m) ==
    LET mix == EOL_SCENARIOS[s]
        i == CHOOSE j \in 1..Len(mix) : mix[j].method = m
    IN  mix[i].fraction

\* sum over methods of EOL_SCENARIOS[s][method] * EOL_METHOD_FACTORS[method]
ExpectedBlend(s) ==
    FractionIn(s, "landfill") * EOL_METHOD_FACTORS["landfill"]
    + FractionIn(s, "incineration") * EOL_METHOD_FACTORS["incineration"]
    + FractionIn(s, "recycling") * EOL_METHOD_FACTORS["recycling"]

RECURSIVE WeightTotal(_)
WeightTotal(pmw) ==
    IF pmw = << >> THEN 0 ELSE pmw[Len(pmw)].weight + WeightTotal(SubSeq(pmw, 1, Len(pmw) - 1))

\* the exact (unrounded) EOL of the weights under a predefined scenario
ExactEol(pmw, s) == WeightTotal(pmw) * ExpectedBlend(s)

\* v is x rounded to 4 decimal places, whichever way a tie goes
IsRounded4(v, x) == v % Ulp4 = 0 /\ 2 * Abs(v - x) <= Ulp4

\* C2 (EOL formula): for a predefined scenario the end_of_life of the result
\* is the sum over per_material_weights of weight * blended factor, rounded
\* to 4 decimal places, and every original with the same per-material
\* weights gets the same end_of_life whatever its weight_kg, phases, links
\* or previous end_of_life.
C2_EolFormula ==
    (result # Null /\ Predefined(scenario)) =>
        /\ IsRounded4(result.summary.breakdown.end_of_life,
                      ExactEol(original.per_material_weights, scenario))
        /\ \A ph \in PhaseChoices, links \in LinkChoices,
              wkg \in WeightKgChoices, fresh \in BOOLEAN :
              recalculateEOL(MkResult(original.per_material_weights, ph, links,
                                      wkg, fresh, 1),
                             scenario).summary.breakdown.end_of_life
              = result.summary.breakdown.end_of_life

\* two materials, a non-zero EOL, and a summary weight that is not their sum
C2_Witness ==
    /\ result # Null
    /\ scenario = "worst_case"
    /\ Len(original.per_material_weights) = 2
    /\ result.summary.breakdown.end_of_life # 0
    /\ original.summary.weight_kg # WeightTotal(original.per_material_weights)
    /\ original.summary.breakdown.end_of_life
          # result.summary.breakdown.end_of_life

MultipleOfUlp4(x) == x % Ulp4 = 0

PhaseSum(r) ==
    LET b == r.summary.breakdown
    IN  b.materials + b.manufacturing + b.transport + b.use + b.end_of_life

\* C3 (total consistency): the total of every returned result is within
\* less than one unit of the 4th decimal of the sum of its five phase
\* values, and equal to it when materials, manufacturing, transport and use
\* are multiples of 0.0001.
C3_TotalConsistency ==
    result # Null =>
        LET d == result.summary.total_co2e_kg - PhaseSum(result)
            ph == FourPhases(result)
        IN  /\ Abs(d) < Ulp4
            /\ (\A i \in 1..4 : MultipleOfUlp4(ph[i])) => d = 0

\* a result whose total is off the sum of its phases by rounding
C3_Witness ==
    /\ result # Null
    /\ result.summary.total_co2e_kg # PhaseSum(result)
    /\ result.summary.breakdown.end_of_life < 0
    /\ ~MultipleOfUlp4(result.summary.breakdown.materials)

\* C4 (graph consistency): every eol->total link of a returned result
\* carries the absolute value of that result's end_of_life.
C4_GraphConsistency ==
    result # Null =>
        \A i \in 1..Len(result.links) :
            IsEolEdge(result.links[i]) =>
                result.links[i].value
                    = Abs(result.summary.breakdown.end_of_life)

\* x rounded to 4 decimal places, ties away from zero
RoundHalfAway4(x) ==
    IF x >= 0 THEN ((x + (Ulp4 \div 2)) \div Ulp4) * Ulp4
    ELSE 0 - ((((0 - x) + (Ulp4 \div 2)) \div Ulp4) * Ulp4)

\* C5 (numeric policy): end_of_life, total_co2e_kg and the eol->total link
\* value are the exact values rounded to 4 decimals, ties away from zero.
C5_RoundHalfAwayFromZero ==
    (result # Null /\ Predefined(scenario)) =>
        LET e == ExactEol(original.per_material_weights, scenario)
            ph == FourPhases(original)
        IN  /\ result.summary.breakdown.end_of_life = RoundHalfAway4(e)
            /\ result.summary.total_co2e_kg
                  = RoundHalfAway4(ph[1] + ph[2] + ph[3] + ph[4] + e)
            /\ \A i \in 1..Len(result.links) :
                  IsEolEdge(result.links[i]) =>
                      result.links[i].value = RoundHalfAway4(Abs(e))

\* C6 (idempotence): recalculating the result of a recalculation with the
\* same scenario gives that result again, field for field.
C6_Idempotent == result # Null => twice = result

\* a second application to a result that differs from the original
C6_Witness ==
    /\ twice # Null
    /\ result # original
    /\ result.summary.total_co2e_kg # original.summary.total_co2e_kg
    /\ result.summary.total_co2e_kg # PhaseSum(result)

\* C7 (no drift): after any sequence of scenarios, each applied to the
\* previous output, the result is the one a single call on the original
\* with the last scenario gives.
C7_NoDrift == steps >= 1 => chained = result

\* three calls with changing scenarios, passing through a negative tie
C7_Witness ==
    /\ steps >= 3
    /\ prevResult # Null
    /\ prevResult.summary.eol_scenario # scenario
    /\ prevResult.summary.breakdown.end_of_life < 0
    /\ chained.summary.breakdown.end_of_life > 0
    /\ ~MultipleOfUlp4(chained.summary.breakdown.materials)

EolOutputs(r) ==
    << r.summary.breakdown.end_of_life,
       r.summary.total_co2e_kg,
       [i \in 1..Len(r.links) |->
           IF IsEolEdge(r.links[i]) THEN r.links[i].value ELSE 0] >>

\* C8 (unknown selector): for every selector that is not one of baseline,
\* best_case, worst_case the call returns the end_of_life, total and
\* eol->total link value of the baseline call.
C8_UnknownFallsBackToBaseline ==
    (result # Null /\ ~Predefined(scenario)) =>
        EolOutputs(result) = EolOutputs(recalculateEOL(original, "baseline"))

\* the latest two calls, both on `original`, both with a predefined scenario
TwoPredefinedCalls ==
    /\ result # Null
    /\ prevResult # Null
    /\ Predefined(scenario)
    /\ Predefined(prevResult.summary.eol_scenario)

TotalDrop == prevResult.summary.total_co2e_kg - result.summary.total_co2e_kg

EolDrop ==
    prevResult.summary.breakdown.end_of_life
    - result.summary.breakdown.end_of_life

SingleOneKg ==
    /\ Len(original.per_material_weights) = 1
    /\ original.per_material_weights[1].weight = 1000

\* the worked example: one material of 1.0 kg
C9_Example ==
    /\ (SingleOneKg /\ result # Null /\ scenario = "baseline") =>
          /\ blendedFactor(mixFor(scenario)) = 44
          /\ result.summary.breakdown.end_of_life = 44000
    /\ (SingleOneKg /\ result # Null /\ scenario = "best_case") =>
          /\ blendedFactor(mixFor(scenario)) = 0 - 9
          /\ result.summary.breakdown.end_of_life = 0 - 9000
    /\ (SingleOneKg /\ TwoPredefinedCalls
          /\ prevResult.summary.eol_scenario = "baseline"
          /\ scenario = "best_case") =>
          TotalDrop = 53000

\* C9 as stated: between two predefined scenarios on one original the total
\* changes by exactly the change of end_of_life, the other four phases being
\* equal, and the worked example holds.
C9_TotalDropIsEolDrop ==
    /\ TwoPredefinedCalls =>
          /\ FourPhases(prevResult) = FourPhases(result)
          /\ TotalDrop = EolDrop
    /\ C9_Example

\* C9 amended: the two changes are equal when the four carried-over phases
\* sum to a multiple of 0.0001, and differ by at most 0.0001 otherwise.
C9_Amended ==
    /\ TwoPredefinedCalls =>
          LET ph == FourPhases(original)
          IN  /\ FourPhases(prevResult) = FourPhases(result)
              /\ MultipleOfUlp4(ph[1] + ph[2] + ph[3] + ph[4]) =>
                    TotalDrop = EolDrop
              /\ Abs(TotalDrop - EolDrop) <= Ulp4
    /\ C9_Example

\* the worked example itself: baseline, then best_case, on 1.0 kg
C9_Witness ==
    /\ SingleOneKg
    /\ TwoPredefinedCalls
    /\ prevResult.summary.eol_scenario = "baseline"
    /\ scenario = "best_case"
    /\ FourPhases(original) = <<200000, 50000, 50000, 10000>>
    /\ TotalDrop = 53000

\* ------------------------------------------------------------------------
\* Claims about the page (checked under Spec)
\* ------------------------------------------------------------------------
\* C10 (the stored original is never mutated): whenever the page holds an
\* original result, it and its material_details list, order included, are
\* the server response exactly as it was received.
C10_OriginalNeverMutated ==
    originalData # Null =>
        LET ref == originalData.material_details
        IN  /\ originalData = received[ref].data
            /\ heap[ref] = received[ref].details

\* C11 (scenario changes are client-side, against the stored original): a
\* scenario change sets displayData to recalculateEOL(originalData, selected
\* scenario), starts no request and leaves originalData and its
\* material_details as they are; while originalData is null it changes no
\* state of the page at all.
C11_ScenarioChangeIsLocal ==
    [][ lastEvent'.kind = "scenario" =>
          /\ originalData' = originalData
          /\ requests' = requests
          /\ started' = started
          /\ received' = received
          /\ loading' = loading
          /\ originalData # Null =>
                /\ displayData' = recalculateEOL(originalData, lastEvent'.arg)
                /\ heap'[originalData.material_details]
                      = heap[originalData.material_details]
          /\ originalData = Null =>
                UNCHANGED <<asin, loading, error, originalData, displayData,
                            activeScenario, requests, started, received,
                            chartLinks, heap>>
      ]_vars

\* a second scenario selection on the same original, another request pending
C11_Witness ==
    /\ lastEvent = [kind |-> "scenario", arg |-> "worst_case"]
    /\ originalData # Null
    /\ displayData = recalculateEOL(originalData, "worst_case")
    /\ displayData # originalData
    /\ displayData # recalculateEOL(originalData, "best_case")
    /\ requests # {}

RECURSIVE FractionSum(_)
FractionSum(mix) ==
    IF mix = << >> THEN 0 ELSE Head(mix).fraction + FractionSum(Tail(mix))

\* a DisposalMix: fractions (in tenths) within [0,1], summing to 1.0, every
\* method a key of EOL_METHOD_FACTORS
ValidDisposalMix(mix) ==
    /\ \A i \in 1..Len(mix) :
          /\ mix[i].fraction >= 0
          /\ mix[i].fraction <= 10
          /\ mix[i].method \in DOMAIN EOL_METHOD_FACTORS
    /\ FractionSum(mix) = 10

\* C12 (valid mix): whatever the selector, the mix a call computes with is a
\* valid DisposalMix whose methods all have a factor in EOL_METHOD_FACTORS.
C12_MixAlwaysValid ==
    result # Null => ValidDisposalMix(mixFor(scenario))

\* C17 (scenario order): with non-negative weights, best_case gives an
\* end_of_life and a total not above baseline's, baseline not above
\* worst_case's, and the best_case end_of_life is never positive.
Rank(s) ==
    CASE s = "best_case" -> 1
      [] s = "baseline" -> 2
      [] s = "worst_case" -> 3

NonNegativeWeights(pmw) == \A i \in 1..Len(pmw) : pmw[i].weight >= 0

C17_ScenarioOrder ==
    NonNegativeWeights(original.per_material_weights) =>
        /\ (TwoPredefinedCalls
              /\ Rank(prevResult.summary.eol_scenario) <= Rank(scenario)) =>
              /\ prevResult.summary.breakdown.end_of_life
                    <= result.summary.breakdown.end_of_life
              /\ prevResult.summary.total_co2e_kg
                    <= result.summary.total_co2e_kg
        /\ (result # Null /\ scenario = "best_case") =>
              result.summary.breakdown.end_of_life <= 0

\* worst_case called after best_case: the two ends of the order, apart
C17_Witness ==
    /\ TwoPredefinedCalls
    /\ prevResult.summary.eol_scenario = "best_case"
    /\ scenario = "worst_case"
    /\ prevResult.summary.breakdown.end_of_life < 0
    /\ result.summary.breakdown.end_of_life > 0
    /\ prevResult.summary.total_co2e_kg < result.summary.total_co2e_kg

\* C18 (label of the mix used): eol_scenario of a returned result is the key
\* of the predefined mix its end_of_life was computed with, hence one of
\* baseline, best_case, worst_case, and "baseline" after a fallback.
C18_LabelIsMixUsed ==
    result # Null =>
        /\ result.summary.eol_scenario \in DOMAIN EOL_SCENARIOS
        /\ EOL_SCENARIOS[result.summary.eol_scenario] = mixFor(scenario)

\* ------------------------------------------------------------------------
\* Claims about the page, continued (checked under Spec)
\* ------------------------------------------------------------------------
NotBelowThreshold(l) == ~(l.value < MinLinkValue)

\* C13 (links filter): the layout gets exactly the links of displayData whose
\* value is not below 0.001, in their order and with their values.
C13_LinksAtThresholdKept ==
    chartLinks # Null =>
        LET kept == SelectSeq(displayData.links, NotBelowThreshold)
        IN  /\ Len(chartLinks) = Len(kept)
            /\ \A i \in 1..Len(kept) :
                  /\ chartLinks[i].value = kept[i].value
                  /\ chartLinks[i].source
                        = nodeIndex(displayData.nodes, kept[i].source)
                  /\ chartLinks[i].target
                        = nodeIndex(displayData.nodes, kept[i].target)

\* C14 (highlight matches the result shown): while a result is displayed,
\* activeScenario is the eol_scenario of that result.
C14_ActiveScenarioMatchesDisplay ==
    displayData # Null => activeScenario = displayData.summary.eol_scenario

\* C15 (loading covers every request): loading is true while any analyze
\* request is in flight.
C15_LoadingWhileInFlight == requests # {} => loading

\* C16 (latest analysis wins): once no request is outstanding, the original
\* and the displayed result, if any, stem from the analysis started last.
C16_LatestAnalysisWins ==
    (requests = {} /\ originalData # Null) =>
        /\ received[originalData.material_details].request = started
        /\ displayData # Null
        /\ received[displayData.material_details].request = started

====
